---- MODULE Spec2Model ----
(***************************************************************************)
(* Block layout of robinson (src/src/layout.rs): layout_tree builds the    *)
(* tree of LayoutBoxes from a styled tree and lays the block boxes out.    *)
(*                                                                         *)
(* Numbers.  The code computes in f32 pixels.  The model counts in half    *)
(* pixels: every length of the input is a whole number of pixels (an even  *)
(* number of half pixels), so `underflow / 2.0` is exact here as it is in  *)
(* f32, and no other operation of the code leaves the integers.  Rounding  *)
(* of f32 sums is not modelled.                                            *)
(***************************************************************************)
EXTENDS Integers, Sequences, FiniteSets, TLC

VARIABLES node, containing_block, pc, root_box

vars == <<node, containing_block, pc, root_box>>

-----------------------------------------------------------------------------
(* Bounds of the model.                                                    *)

\* Largest number of styled nodes of an input tree.
MaxNodes == 4

\* Number of distinct specified widths tried on a single box.
MaxLen == 3

-----------------------------------------------------------------------------
(* css values (css::Value) and the styled node's lookups (style module).   *)

None == [tag |-> "None"]

Keyword(s) == [tag |-> "Keyword", name |-> s]

\* Length(f, Px), f counted in half pixels.
Length(f) == [tag |-> "Length", px |-> f]

\* A length of n whole pixels.
Px(n) == Length(2 * n)

Auto == Keyword("auto")

\* Value::to_px: the pixels of a length, 0.0 for anything else.
ToPx(v) == IF v.tag = "Length" THEN v.px ELSE 0

\* StyledNode::value: the specified value of a property, if any.
StyleValue(style, name) ==
    IF name \in DOMAIN style.specified THEN style.specified[name] ELSE None

\* StyledNode::lookup: the property, else the shorthand, else the default.
Lookup(style, name, fallback_name, default) ==
    IF StyleValue(style, name) # None THEN StyleValue(style, name)
    ELSE IF StyleValue(style, fallback_name) # None
         THEN StyleValue(style, fallback_name)
         ELSE default

-----------------------------------------------------------------------------
(* Dimensions, EdgeSizes, LayoutBox.                                       *)

DefaultEdgeSizes == [left |-> 0, right |-> 0, top |-> 0, bottom |-> 0]

DefaultDimensions ==
    [ x |-> 0, y |-> 0, width |-> 0, height |-> 0,
      padding |-> DefaultEdgeSizes,
      border |-> DefaultEdgeSizes,
      margin |-> DefaultEdgeSizes ]

BlockNode(n) == [tag |-> "BlockNode", style |-> n]

InlineNode(n) == [tag |-> "InlineNode", style |-> n]

InlineContainer == [tag |-> "InlineContainer"]

\* The outcome of fail!(msg).
Failure(msg) == [tag |-> "Failure", msg |-> msg]

IsFailure(r) == r.tag = "Failure"

\* LayoutBox::new
New(box_type) ==
    [ tag |-> "LayoutBox",
      box_type |-> box_type,
      dimensions |-> DefaultDimensions,
      children |-> <<>> ]

\* LayoutBox::style
Style(box) ==
    CASE box.box_type.tag = "BlockNode" -> box.box_type.style
      [] box.box_type.tag = "InlineNode" -> box.box_type.style
      [] box.box_type.tag = "InlineContainer" ->
            Failure("Inline container has no style node")

\* Dimensions::margin_box_height
MarginBoxHeight(d) ==
    d.height + d.padding.top + d.padding.bottom
             + d.border.top + d.border.bottom
             + d.margin.top + d.margin.bottom

-----------------------------------------------------------------------------
(* build_layout_tree                                                       *)

\* RootBoxType refusing an inline node as it refuses display none.
RootBoxTypeBlockOnly(n) ==
    IF n.display = "block"
    THEN [tag |-> "BlockNode", style |-> n]
    ELSE [tag |-> "Failure", msg |-> "Root node has display: none."]

\* The box type of the box built for a node (the match of lines 70-74).
RootBoxType(n) ==
    CASE n.display = "block" -> BlockNode(n)
      [] n.display = "inline" -> InlineNode(n)
      [] n.display = "none" -> Failure("Root node has display: none.")

\* LayoutBox::push_block
PushBlock(box, child) == [box EXCEPT !.children = Append(@, child)]

\* PushInline keeping the child, as push_block does.
PushInlineKeeps(box, child) == [box EXCEPT !.children = Append(@, child)]

\* LayoutBox::push_inline: the child is dropped.
PushInline(box, child) == box

RECURSIVE BuildLayoutTree(_), BuildChildren(_, _, _)

\* The loop of lines 76-82 from child i on; root is the box so far.  A failure
\* while building a child unwinds the whole call.
BuildChildren(n, i, root) ==
    IF i > Len(n.children) THEN root
    ELSE LET child == n.children[i] IN
         IF child.display = "none" THEN BuildChildren(n, i + 1, root)
         ELSE LET built == BuildLayoutTree(child) IN
              IF IsFailure(built) THEN built
              ELSE IF child.display = "block"
                   THEN BuildChildren(n, i + 1, PushBlock(root, built))
                   ELSE BuildChildren(n, i + 1, PushInline(root, built))

BuildLayoutTree(n) ==
    LET box_type == RootBoxType(n) IN
    IF IsFailure(box_type) THEN box_type
    ELSE BuildChildren(n, 1, New(box_type))

-----------------------------------------------------------------------------
(* LayoutBox::calculate_block_width                                        *)

\* Length(0.0, Px), the initial value of margin, border and padding.
Zero == Length(0)

\* `width` has initial value `auto`.
SpecifiedWidth(style) ==
    IF StyleValue(style, "width") = None THEN Auto ELSE StyleValue(style, "width")

\* SpecifiedMarginLeft with auto as the initial value.
SpecifiedMarginLeftInitiallyAuto(style) ==
    Lookup(style, "margin-left", "margin", Auto)

SpecifiedMarginLeft(style) == Lookup(style, "margin-left", "margin", Zero)

SpecifiedMarginRight(style) == Lookup(style, "margin-right", "margin", Zero)

BorderLeft(style) == Lookup(style, "border-left-width", "border-width", Zero)

BorderRight(style) == Lookup(style, "border-right-width", "border-width", Zero)

PaddingLeft(style) == Lookup(style, "padding-left", "padding", Zero)

PaddingRight(style) == Lookup(style, "padding-right", "padding", Zero)

\* Total with the paddings forgotten.
TotalWithoutPadding(style) ==
    ToPx(Lookup(style, "margin-left", "margin", Length(0)))
      + ToPx(Lookup(style, "margin-right", "margin", Length(0)))
      + ToPx(Lookup(style, "border-left-width", "border-width", Length(0)))
      + ToPx(Lookup(style, "border-right-width", "border-width", Length(0)))
      + ToPx(IF StyleValue(style, "width") = None
             THEN Auto ELSE StyleValue(style, "width"))

\* The sum of the seven horizontal values, auto counting 0.
Total(style) ==
    ToPx(SpecifiedMarginLeft(style)) + ToPx(SpecifiedMarginRight(style))
      + ToPx(BorderLeft(style)) + ToPx(BorderRight(style))
      + ToPx(PaddingLeft(style)) + ToPx(PaddingRight(style))
      + ToPx(SpecifiedWidth(style))

\* If width is not auto and the total is wider than the container, an auto
\* margin is treated as 0.
TreatAutoAsZero(width, total, cb_width, margin) ==
    IF width # Auto /\ total > cb_width /\ margin = Auto THEN Length(0) ELSE margin

\* Overconstrained replacing margin_right by the underflow.
OverconstrainedDropsMargin(width, margin_left, margin_right, underflow) ==
    [ width |-> width, margin_left |-> margin_left,
      margin_right |-> Length(underflow) ]

\* The arm (false, false, false): the values are overconstrained and
\* margin_right takes the underflow.
Overconstrained(width, margin_left, margin_right, underflow) ==
    [ width |-> width, margin_left |-> margin_left,
      margin_right |-> Length(ToPx(margin_right) + underflow) ]

\* The arm (true, _, _): width takes the underflow, an auto margin becomes 0.
AutoWidth(width, margin_left, margin_right, underflow) ==
    [ width |-> Length(underflow),
      margin_left |-> IF margin_left = Auto THEN Length(0) ELSE margin_left,
      margin_right |-> IF margin_right = Auto THEN Length(0) ELSE margin_right ]

\* BothMarginsAuto giving the whole underflow to the left margin.
BothMarginsAutoLeftOnly(width, margin_left, margin_right, underflow) ==
    [ width |-> width,
      margin_left |-> Length(underflow),
      margin_right |-> Length(0) ]

\* The arm (false, true, true): the two margins are equal.
BothMarginsAuto(width, margin_left, margin_right, underflow) ==
    [ width |-> width,
      margin_left |-> Length(underflow \div 2),
      margin_right |-> Length(underflow \div 2) ]

\* The match on (width == auto, margin_left == auto, margin_right == auto):
\* the used width, margin-left and margin-right.
Resolve(width, margin_left, margin_right, underflow) ==
    LET w == (width = Auto)
        l == (margin_left = Auto)
        r == (margin_right = Auto)
    IN  CASE ~w /\ ~l /\ ~r ->
               Overconstrained(width, margin_left, margin_right, underflow)
          [] ~w /\ ~l /\ r ->
               [ width |-> width, margin_left |-> margin_left,
                 margin_right |-> Length(underflow) ]
          [] ~w /\ l /\ ~r ->
               [ width |-> width, margin_left |-> Length(underflow),
                 margin_right |-> margin_right ]
          [] w -> AutoWidth(width, margin_left, margin_right, underflow)
          [] ~w /\ l /\ r ->
               BothMarginsAuto(width, margin_left, margin_right, underflow)

CalculateBlockWidth(box, cb) ==
    LET style == Style(box)
        width == SpecifiedWidth(style)
        total == Total(style)
        margin_left ==
            TreatAutoAsZero(width, total, cb.width, SpecifiedMarginLeft(style))
        margin_right ==
            TreatAutoAsZero(width, total, cb.width, SpecifiedMarginRight(style))
        underflow == cb.width - total
        used == Resolve(width, margin_left, margin_right, underflow)
        d1 == [ box.dimensions EXCEPT
                  !.width = ToPx(used.width),
                  !.padding.left = ToPx(PaddingLeft(style)),
                  !.padding.right = ToPx(PaddingRight(style)),
                  !.border.left = ToPx(BorderLeft(style)),
                  !.border.right = ToPx(BorderRight(style)),
                  !.margin.left = ToPx(used.margin_left),
                  !.margin.right = ToPx(used.margin_right) ]
    IN  [ box EXCEPT !.dimensions =
            [ d1 EXCEPT !.x = cb.x + d1.margin.left + d1.border.left
                                   + d1.padding.left ] ]

-----------------------------------------------------------------------------
(* LayoutBox::calculate_block_height                                       *)

\* CalculateBlockHeight taking any specified height, a keyword as 0px.
CalculateBlockHeightOfAnyValue(box) ==
    LET h == StyleValue(box.box_type.style, "height") IN
    IF h # None
    THEN [box EXCEPT !.dimensions.height = ToPx(h)]
    ELSE box

\* Some(Length(h, Px)) replaces the content height; anything else leaves it.
CalculateBlockHeight(box) ==
    LET h == StyleValue(Style(box), "height") IN
    IF h.tag = "Length"
    THEN [box EXCEPT !.dimensions.height = h.px]
    ELSE box

-----------------------------------------------------------------------------
(* LayoutBox::layout, layout_block, layout_block_content                   *)

\* ChildY with every child at the top of the content area.
ChildYAtTop(d, content_height) == d.y

\* The position of a child below the previous ones (line 221).
ChildY(d, content_height) == d.y + content_height

\* The vertical edges and the content-area y (lines 204-213).
ContentPosition(box, cb) ==
    LET style == Style(box)
        d1 == [ box.dimensions EXCEPT
                  !.margin.top = ToPx(Lookup(style, "margin-top", "margin", Zero)),
                  !.margin.bottom =
                      ToPx(Lookup(style, "margin-bottom", "margin", Zero)),
                  !.border.top =
                      ToPx(Lookup(style, "border-top-width", "border-width", Zero)),
                  !.border.bottom =
                      ToPx(Lookup(style, "border-bottom-width", "border-width", Zero)),
                  !.padding.top =
                      ToPx(Lookup(style, "padding-top", "padding", Zero)),
                  !.padding.bottom =
                      ToPx(Lookup(style, "padding-bottom", "padding", Zero)) ]
    IN  [ d1 EXCEPT !.y = cb.y + d1.margin.top + d1.border.top + d1.padding.top ]

RECURSIVE Layout(_, _), LayoutBlock(_, _), LayoutBlockContent(_, _),
          LayoutChildren(_, _, _, _, _)

\* The loop of lines 216-223 from child i on: the children laid out so far
\* and the running content height.  d is the parent's dimensions, which the
\* loop does not change.
LayoutChildren(d, children, i, done, content_height) ==
    IF i > Len(children)
    THEN [children |-> done, content_height |-> content_height]
    ELSE LET laid == Layout(children[i], d)
             child == [laid EXCEPT !.dimensions.y = ChildY(d, content_height)]
         IN  LayoutChildren(d, children, i + 1, Append(done, child),
                            content_height + MarginBoxHeight(child.dimensions))

LayoutBlockContent(box, cb) ==
    LET d == ContentPosition(box, cb)
        r == LayoutChildren(d, box.children, 1, <<>>, 0)
    IN  [ box EXCEPT !.dimensions = [d EXCEPT !.height = r.content_height],
                     !.children = r.children ]

LayoutBlock(box, cb) ==
    CalculateBlockHeight(LayoutBlockContent(CalculateBlockWidth(box, cb), cb))

Layout(box, cb) ==
    IF box.box_type.tag = "BlockNode" THEN LayoutBlock(box, cb) ELSE box

-----------------------------------------------------------------------------
(* The inputs: styled trees (style::StyledNode) and containing blocks.     *)

\* The specified values of a node (style::PropertyMap): the properties of f
\* that have a value.
Specified(f) == [p \in {q \in DOMAIN f : f[q] # None} |-> f[p]]

StyledNode(display, specified, children) ==
    [display |-> display, specified |-> specified, children |-> children]

\* Styles of the nodes of the input trees.
Plain == Specified(<<>>)

Centered ==
    Specified(("width" :> Px(4)) @@ ("margin-left" :> Auto)
                @@ ("margin-right" :> Auto) @@ ("height" :> Px(3)))

Padded ==
    Specified(("width" :> Px(6)) @@ ("margin-top" :> Px(1)) @@ ("padding" :> Px(1)))

Framed ==
    Specified(("margin" :> Px(3)) @@ ("border-top-width" :> Px(1))
                @@ ("height" :> Auto))

Wide ==
    Specified(("width" :> Px(12)) @@ ("margin" :> Auto)
                @@ ("margin-bottom" :> Px(2)))

\* A node without its children: display and specified values.
Kinds ==
    [display : {"block"}, specified : {Plain, Centered, Padded, Framed, Wide}]
      \cup [display : {"inline", "none"}, specified : {Plain}]

\* The shape of a tree of n nodes, numbered in document order: parent[i] is
\* the parent of node i (0 for the root, node 1), and the parent of node i is
\* node i - 1 or one of its ancestors.
RECURSIVE IsAncestorOrSelf(_, _, _)

IsAncestorOrSelf(parent, a, i) ==
    IF i = 0 THEN FALSE
    ELSE IF a = i THEN TRUE
    ELSE IsAncestorOrSelf(parent, a, parent[i])

IsShape(parent, n) ==
    /\ \A i \in 1..n : parent[i] < i
    /\ \A i \in 2..n : IsAncestorOrSelf(parent, parent[i], i - 1)

RECURSIVE SubtreeAt(_, _, _, _), ChildrenFrom(_, _, _, _, _)

\* The children of node j among the nodes i..n, in document order.
ChildrenFrom(parent, kinds, n, j, i) ==
    IF i > n THEN <<>>
    ELSE IF parent[i] = j
         THEN <<SubtreeAt(parent, kinds, n, i)>>
                \o ChildrenFrom(parent, kinds, n, j, i + 1)
         ELSE ChildrenFrom(parent, kinds, n, j, i + 1)

\* The styled node that node j of the shape stands for.
SubtreeAt(parent, kinds, n, j) ==
    StyledNode(kinds[j].display, kinds[j].specified,
               ChildrenFrom(parent, kinds, n, j, j + 1))

\* The containing block of the tree inputs, away from the origin.
Viewport == [DefaultDimensions EXCEPT !.x = 2, !.y = 4, !.width = 20]

\* Styles of a single box: every combination of the horizontal properties.
BoxWidths == {None, Auto} \cup { Px(3 * i) : i \in 1..MaxLen }

BoxMargins == {None, Auto, Px(1), Px(-1)}

BoxStyles ==
    { Specified(("width" :> w) @@ ("margin-left" :> l) @@ ("margin-right" :> r)
                  @@ ("margin" :> m) @@ ("border-left-width" :> b)
                  @@ ("padding" :> p)) :
        w \in BoxWidths, l \in BoxMargins, r \in BoxMargins,
        m \in {None, Auto, Px(2)}, b \in {None, Px(1)}, p \in {None, Px(1)} }

BoxContainers == { [DefaultDimensions EXCEPT !.width = w] : w \in {12, 16} }

-----------------------------------------------------------------------------
(* layout_tree as a state machine: build the box tree, then lay it out.    *)

Init ==
    /\ \/ /\ \E n \in 1..MaxNodes :
                \E parent \in [1..n -> 0..(n - 1)] :
                   /\ IsShape(parent, n)
                   /\ \E kinds \in [1..n -> Kinds] :
                         node = SubtreeAt(parent, kinds, n, 1)
          /\ containing_block = Viewport
       \/ /\ node \in { StyledNode("block", s, <<>>) : s \in BoxStyles }
          /\ containing_block \in BoxContainers
    /\ pc = "start"
    /\ root_box = None

\* let mut root_box = build_layout_tree(node);
Build ==
    /\ pc = "start"
    /\ root_box' = BuildLayoutTree(node)
    /\ pc' = IF IsFailure(root_box') THEN "failed" ELSE "built"
    /\ UNCHANGED <<node, containing_block>>

\* root_box.layout(containing_block); return root_box;
LayoutRoot ==
    /\ pc = "built"
    /\ root_box' = Layout(root_box, containing_block)
    /\ pc' = "done"
    /\ UNCHANGED <<node, containing_block>>

Next == Build \/ LayoutRoot

Spec == Init /\ [][Next]_vars

-----------------------------------------------------------------------------
(* What the properties below speak of.                                     *)

\* The sum the used horizontal values of a box are meant to make.
HorizontalSum(d) ==
    d.width + d.margin.left + d.margin.right
            + d.border.left + d.border.right
            + d.padding.left + d.padding.right

\* The height of a box with its padding, border and margin, from its final
\* dimensions.
OuterHeight(d) ==
    d.height + d.padding.top + d.padding.bottom
             + d.border.top + d.border.bottom
             + d.margin.top + d.margin.bottom

RECURSIVE OuterHeights(_, _)

\* The outer heights of the first k boxes of a sequence, added up.
OuterHeights(boxes, k) ==
    IF k = 0 THEN 0
    ELSE OuterHeights(boxes, k - 1) + OuterHeight(boxes[k].dimensions)

RECURSIVE Places(_, _, _)

\* Every box of a tree with its containing block (the final dimensions of its
\* parent; cb for the root) and the outer heights of its preceding siblings.
Places(box, cb, above) ==
    { [box |-> box, cb |-> cb, above |-> above] }
      \cup UNION { Places(box.children[i], box.dimensions,
                          OuterHeights(box.children, i - 1))
                   : i \in 1..Len(box.children) }

\* The boxes of the tree layout_tree returns, when its root is a block.
LaidOut ==
    IF pc = "done" /\ root_box.box_type.tag = "BlockNode"
    THEN { pl \in Places(root_box, containing_block, 0) :
             pl.box.box_type.tag = "BlockNode" }
    ELSE {}

\* The boxes of the tree build_layout_tree made.
Built ==
    IF pc \in {"built", "done"}
    THEN { pl.box : pl \in Places(root_box, containing_block, 0) }
    ELSE {}

\* The specified values of a placed box, with the shorthand as fallback and
\* 0px where nothing is specified.
StyleOf(pl) == pl.box.box_type.style

Given(pl, name, shorthand) == Lookup(StyleOf(pl), name, shorthand, Length(0))

GivenWidth(pl) == StyleValue(StyleOf(pl), "width")

GivenSideSum(pl) ==
    ToPx(Given(pl, "border-left-width", "border-width"))
      + ToPx(Given(pl, "border-right-width", "border-width"))
      + ToPx(Given(pl, "padding-left", "padding"))
      + ToPx(Given(pl, "padding-right", "padding"))

Absent(pl, name) == StyleValue(StyleOf(pl), name) = None

\* C1: the used width, margins, borders and paddings of every block box of
\* the returned tree add up to the width of its containing block.
C1_WidthsFillContainingBlock ==
    \A pl \in LaidOut : HorizontalSum(pl.box.dimensions) = pl.cb.width

\* A box below the root with width auto whose used width came out negative.
C1_Witness ==
    \E pl \in LaidOut :
        /\ pl.box # root_box
        /\ Absent(pl, "width")
        /\ pl.box.dimensions.width < 0
        /\ pl.box.dimensions.padding.left + pl.box.dimensions.margin.left > 0

\* C2: each child of a laid-out block box starts where the previous child's
\* margin box ends; adjacent margins are added.
C2_SiblingsStack ==
    \A pl \in LaidOut :
        \A i \in 1..(Len(pl.box.children) - 1) :
            pl.box.children[i + 1].dimensions.y
              = pl.box.children[i].dimensions.y
                  + OuterHeight(pl.box.children[i].dimensions)

\* Two siblings, the first with a bottom margin and an explicit height, the
\* second with a top margin.
C2_Witness ==
    \E pl \in LaidOut :
        \E i \in 1..(Len(pl.box.children) - 1) :
            /\ pl.box.children[i].dimensions.margin.bottom > 0
            /\ pl.box.children[i + 1].dimensions.margin.top > 0
            /\ pl.box.children[i].dimensions.height > 0

\* C3: the first child of every laid-out block box, at every depth, sits at
\* the box's own final content-area y.
C3_FirstChildAtContentY ==
    \A pl \in LaidOut :
        Len(pl.box.children) > 0
          => pl.box.children[1].dimensions.y = pl.box.dimensions.y

\* C4: the final height is the pixel height of the style when there is one,
\* and the sum of the children's margin-box heights otherwise.
C4_Height ==
    \A pl \in LaidOut :
        LET h == StyleValue(StyleOf(pl), "height") IN
        IF h.tag = "Length"
        THEN pl.box.dimensions.height = h.px
        ELSE pl.box.dimensions.height
               = OuterHeights(pl.box.children, Len(pl.box.children))

\* A box with height: auto and children of positive height, one of them with
\* an explicit height and children of its own.
C4_Witness ==
    \E pl \in LaidOut :
        /\ StyleValue(StyleOf(pl), "height") = Auto
        /\ pl.box.dimensions.height > 0
        /\ \E i \in 1..Len(pl.box.children) :
              /\ StyleValue(pl.box.children[i].box_type.style, "height").tag
                   = "Length"
              /\ Len(pl.box.children[i].children) > 0

\* The nodes of the children of a box, and whether each child's type matches
\* its node's display.
ChildNodes(box) == [i \in 1..Len(box.children) |-> box.children[i].box_type.style]

TypesMatch(box) ==
    \A i \in 1..Len(box.children) :
        box.children[i].box_type.tag
          = (IF box.children[i].box_type.style.display = "block"
             THEN "BlockNode" ELSE "InlineNode")

IsShown(n) == n.display # "none"

IsBlock(n) == n.display = "block"

\* C5 as stated: the children of a box are the boxes of the node's children
\* that are not display none, inline ones included.
C5_ChildrenAreAllButNone ==
    \A b \in Built :
        /\ ChildNodes(b) = SelectSeq(b.box_type.style.children, IsShown)
        /\ TypesMatch(b)

\* C5 amended: the children of a box are the boxes of the node's block
\* children, in source order; inline and none children contribute no box.
C5_ChildrenAreBlocks ==
    \A b \in Built :
        /\ ChildNodes(b) = SelectSeq(b.box_type.style.children, IsBlock)
        /\ TypesMatch(b)

\* A box with children whose node also has an inline and a none child.
C5_Witness ==
    \E b \in Built :
        /\ Len(b.children) > 0
        /\ \E i \in 1..Len(b.box_type.style.children) :
              b.box_type.style.children[i].display = "inline"
        /\ \E i \in 1..Len(b.box_type.style.children) :
              b.box_type.style.children[i].display = "none"

BothMarginsGivenAuto(pl) ==
    /\ Given(pl, "margin-left", "margin") = Auto
    /\ Given(pl, "margin-right", "margin") = Auto
    /\ GivenWidth(pl).tag = "Length"

\* C6 as stated: auto left and right margins around a fixed width come out
\* equal, whatever the containing block's width.
C6_AutoMarginsEqual ==
    \A pl \in LaidOut :
        BothMarginsGivenAuto(pl)
          => pl.box.dimensions.margin.left = pl.box.dimensions.margin.right

\* C6 amended: they come out equal when width, borders and paddings are not
\* wider than the containing block.
C6_AutoMarginsEqualWhenFits ==
    \A pl \in LaidOut :
        BothMarginsGivenAuto(pl)
          /\ ToPx(GivenWidth(pl)) + GivenSideSum(pl) <= pl.cb.width
          => pl.box.dimensions.margin.left = pl.box.dimensions.margin.right

\* A centred box: fixed width, both margins auto, room to spare.
C6_Witness ==
    \E pl \in LaidOut :
        /\ BothMarginsGivenAuto(pl)
        /\ pl.box.dimensions.margin.left > 0
        /\ pl.box.dimensions.margin.left = pl.box.dimensions.margin.right

\* C7: x and y are the content-area origin: the margin box's top-left plus
\* the box's own margin, border and padding.
C7_ContentOrigin ==
    \A pl \in LaidOut :
        LET d == pl.box.dimensions IN
        /\ d.x = pl.cb.x + d.margin.left + d.border.left + d.padding.left
        /\ d.y = pl.cb.y + pl.above + d.margin.top + d.border.top + d.padding.top

\* C8: layout_tree fails exactly when the root's display is none; otherwise
\* it returns a tree, none of whose boxes is an inline container.
C8_FailsIffRootNone ==
    /\ pc = "failed" <=> (pc # "start" /\ node.display = "none")
    /\ pc = "failed" => root_box = Failure("Root node has display: none.")
    /\ \A b \in Built : b.box_type.tag \in {"BlockNode", "InlineNode"}

\* A returned tree whose root has an inline child and a none child with
\* children of its own.
C8_Witness ==
    /\ pc = "done"
    /\ \E i \in 1..Len(node.children) : node.children[i].display = "inline"
    /\ \E i \in 1..Len(node.children) :
          /\ node.children[i].display = "none"
          /\ Len(node.children[i].children) > 0

NoMarginGiven(pl) ==
    /\ Absent(pl, "margin-left")
    /\ Absent(pl, "margin-right")
    /\ Absent(pl, "margin")
    /\ GivenWidth(pl).tag = "Length"

Underflow(pl) == pl.cb.width - (ToPx(GivenWidth(pl)) + GivenSideSum(pl))

\* C9 as stated: a margin that is not specified counts as auto, so a fixed
\* width narrower than its containing block is centred.
C9_UnspecifiedMarginIsAuto ==
    \A pl \in LaidOut :
        NoMarginGiven(pl) /\ Underflow(pl) > 0
          => /\ pl.box.dimensions.margin.left = Underflow(pl) \div 2
             /\ pl.box.dimensions.margin.right = Underflow(pl) \div 2

\* C9 amended: a margin that is not specified counts as 0px, so a fixed width
\* without margin properties gets margin.left 0 and margin.right the underflow.
C9_UnspecifiedMarginIsZero ==
    \A pl \in LaidOut :
        NoMarginGiven(pl)
          => /\ pl.box.dimensions.margin.left = 0
             /\ pl.box.dimensions.margin.right = Underflow(pl)

\* A fixed width without margin properties, narrower than its container.
C9_Witness ==
    \E pl \in LaidOut :
        /\ NoMarginGiven(pl)
        /\ Underflow(pl) > 0
        /\ pl.box.dimensions.margin.right = Underflow(pl)

NoneAuto(pl) ==
    /\ GivenWidth(pl).tag = "Length"
    /\ Given(pl, "margin-left", "margin").tag = "Length"
    /\ Given(pl, "margin-right", "margin").tag = "Length"

\* C10: with width and both margins specified as lengths, width and
\* margin-left keep their values and margin-right takes the underflow, also
\* when that makes it negative.
C10_MarginRightTakesUnderflow ==
    \A pl \in LaidOut :
        NoneAuto(pl)
          => LET ml == ToPx(Given(pl, "margin-left", "margin"))
                 mr == ToPx(Given(pl, "margin-right", "margin"))
                 d == pl.box.dimensions
             IN  /\ d.width = ToPx(GivenWidth(pl))
                 /\ d.margin.left = ml
                 /\ d.margin.right = mr + (Underflow(pl) - ml - mr)

\* An overconstrained box with a specified right margin that came out
\* negative.
C10_Witness ==
    \E pl \in LaidOut :
        /\ NoneAuto(pl)
        /\ ToPx(Given(pl, "margin-right", "margin")) > 0
        /\ ToPx(Given(pl, "margin-left", "margin")) # 0
        /\ pl.box.dimensions.margin.right < 0

====
